---- MODULE Spec2Model ----
(***************************************************************************)
(* Device roster management of the tracr controller (src/api/device.py):   *)
(* the DeviceManager with its settings.yaml Known_Devices list and its     *)
(* in-memory list of Device objects, the per-device connection threads of  *)
(* load_known_devices, and the SSH session state of a Device.              *)
(***************************************************************************)
EXTENDS Integers, Sequences, FiniteSets, TLC

\* Host aliases with a complete block in ~/.ssh/config: "a" with an
\* IdentityFile, "b" with password login.  The settings file holds such names.
Names == {"a", "b"}
WithKey == {"a"}

\* An alias without a block: its lookup yields a hostname but no user.
Unconfigured == {"z"}

Aliases == Names \cup Unconfigured

\* Concurrent callers of the DeviceManager API; the command-line session is
\* the first.
Callers == {"p", "q"}
Session == "p"

\* Longest Known_Devices list the settings file starts with.
MaxInitKnown == 2

\* Number of DeviceManager calls explored when calls may overlap.
MaxCalls == 2

\* Outcomes of paramiko's ssh.connect.
ConnectResults == {"ok", "auth", "unreach"}

VARIABLES file, devices, call, threads, lock, last, started, clean

vars == <<file, devices, call, threads, lock, last, started, clean>>

----------------------------------------------------------------------------
\* Helpers on sequences.

Range(s) == {s[i] : i \in 1..Len(s)}

NoDuplicates(s) == \A i, j \in 1..Len(s) : s[i] = s[j] => i = j

RECURSIVE SeqsUpTo(_, _)
SeqsUpTo(S, n) ==
    IF n = 0 THEN {<<>>}
    ELSE LET shorter == SeqsUpTo(S, n - 1)
         IN  shorter \cup {Append(s, x) : s \in shorter, x \in S}

\* list.remove(x): drops the first element equal to x.
RemoveFirst(s, x) ==
    LET i == CHOOSE k \in 1..Len(s) : s[k] = x /\ \A j \in 1..(k - 1) : s[j] # x
    IN  SubSeq(s, 1, i - 1) \o SubSeq(s, i + 1, Len(s))

DeviceNames(devs) == [i \in 1..Len(devs) |-> devs[i].name]

----------------------------------------------------------------------------
\* Device: the SSH session of one device.

\* A Device as __init__ has it before connecting (connected is the class
\* attribute's False).
NewDevice(name) == [name |-> name, connected |-> FALSE]

\* ssh_server_is_open buggy variant: the failed probe leaves the flag set.
ssh_server_is_open_stale(dev, execOk) ==
    IF ~dev.connected THEN [ret |-> FALSE, dev |-> dev]
    ELSE IF execOk THEN [ret |-> TRUE, dev |-> dev]
    ELSE [ret |-> FALSE, dev |-> dev]

\* Device.ssh_server_is_open: execOk is whether exec_command("echo") succeeds.
ssh_server_is_open(dev, execOk) ==
    IF ~dev.connected THEN [ret |-> FALSE, dev |-> dev]
    ELSE IF execOk THEN [ret |-> TRUE, dev |-> dev]
    ELSE [ret |-> FALSE, dev |-> [dev EXCEPT !.connected = FALSE]]

\* The handshake part of _connect_to_ssh_client (lines 177-217): a password
\* prompt unless the private key is used, then ssh.connect.
Handshake(dev, res) ==
    [dev |-> [dev EXCEPT !.connected = IF res = "ok" THEN TRUE ELSE @],
     hs |-> 1,
     pw |-> IF dev.name \in WithKey THEN 0 ELSE 1,
     raised |-> IF res = "ok" THEN "none"
                ELSE IF res = "auth" THEN "AuthenticationException"
                ELSE "NoValidConnectionsError"]

\* _connect_to_ssh_client buggy variant: no early return.
connect_always(dev, execOk, res) == Handshake(dev, res)

\* Device._connect_to_ssh_client.
connect_to_ssh_client(dev, execOk, res) ==
    LET probe == ssh_server_is_open(dev, execOk)
    IN  IF dev.connected /\ probe.ret
        THEN [dev |-> dev, hs |-> 0, pw |-> 0, raised |-> "none"]
        ELSE Handshake(probe.dev, res)

\* Device.__init__: connects, and swallows every exception of the attempt.
DeviceInit(name, res) == connect_to_ssh_client(NewDevice(name), TRUE, res).dev

----------------------------------------------------------------------------
\* DeviceManager: pure parts.

\* get_devices_by(name=...)
get_devices_by_name(devs, name) == SelectSeq(devs, LAMBDA d : d.name = name)

\* load_known_devices buggy variant: never skips a name.
NeverSkip(devs, name) == FALSE

\* load_known_devices, line 781: a name already in the roster is skipped.
AlreadyLoaded(devs, name) == get_devices_by_name(devs, name) # <<>>

\* thread body buggy variant: a failed connection escapes Device.__init__ and
\* the thread dies before the append.
AppendIfConnected(devs, name, res) ==
    IF res = "ok" THEN Append(devs, DeviceInit(name, res)) ELSE devs

\* load_known_devices.add_device, the thread body: devices_list.append(Device(...)).
ThreadAppend(devs, name, res) == Append(devs, DeviceInit(name, res))

\* add_device buggy variant: appends and writes whatever the list holds.
AlwaysWrite(known, name) == TRUE

\* add_device, line 855.
NeedsWrite(known, name) == name \notin Range(known)

\* remove_device buggy variant: several matches are resolved silently.
remove_first_match(n) == IF n = 0 THEN "return" ELSE "proceed"

\* remove_device, lines 875-881: what the number of matches leads to.
remove_decision(n) ==
    IF n = 0 THEN "return"
    ELSE IF n > 1 THEN "raise"
    ELSE "proceed"

----------------------------------------------------------------------------
\* State.

IdleCall ==
    [pc |-> "idle", op |-> "none", name |-> "-", settings |-> <<>>,
     names |-> <<>>, outcome |-> "none",
     file0 |-> [trunc |-> FALSE, known |-> <<>>], dev0 |-> <<>>,
     quiet0 |-> TRUE, wrote |-> FALSE, matched |-> 0, others |-> 0]

NoOp == [op |-> "none", idx |-> 0, name |-> "-", pre |-> FALSE, exec |-> FALSE,
         res |-> "none", ret |-> FALSE, post |-> FALSE, hs |-> 0, pw |-> 0,
         raised |-> "none"]

Init ==
    /\ file \in {[trunc |-> FALSE, known |-> s] : s \in SeqsUpTo(Names, MaxInitKnown)}
    /\ devices = <<>>
    /\ call = [c \in Callers |-> IdleCall]
    /\ threads = [c \in Callers |-> <<>>]
    /\ lock = [c \in Callers |-> FALSE]
    /\ last = NoOp
    /\ started = 0
    /\ clean = NoDuplicates(file.known)

Running(c) == call[c].pc \notin {"idle", "done"}

AllIdle == \A c \in Callers : call[c].pc = "idle"

\* The call record of a call that starts now, and the bookkeeping of the
\* other callers' records.
Begin(c, op, name, m, pc, outcome) ==
    call' = [d \in Callers |->
                IF d = c
                THEN [IdleCall EXCEPT !.pc = pc, !.op = op, !.name = name,
                                      !.outcome = outcome, !.matched = m,
                                      !.file0 = file, !.dev0 = devices,
                                      !.quiet0 = \A e \in Callers \ {c} : ~Running(e)]
                ELSE IF call[d].pc = "idle" THEN call[d]
                ELSE [call[d] EXCEPT !.others = IF @ < 2 THEN @ + 1 ELSE @]]

Finish(c, outcome) ==
    call' = [call EXCEPT ![c].pc = "done", ![c].outcome = outcome]

Truncated == [trunc |-> TRUE, known |-> <<>>]

Written(known) == [trunc |-> FALSE, known |-> known]

----------------------------------------------------------------------------
\* DeviceManager.add_device

\* The call and its SSH config lookup (lines 839-847).
StartAdd(c, n) ==
    /\ call[c].pc = "idle"
    /\ IF n \in Names
       THEN Begin(c, "add", n, Len(get_devices_by_name(devices, n)), "add_read", "none")
       ELSE Begin(c, "add", n, Len(get_devices_by_name(devices, n)), "done", "ValueError")
    /\ last' = NoOp
    /\ UNCHANGED <<file, devices, threads, lock, clean>>

\* Lines 850-854: settings.yaml is read; an empty file loads as None and
\* settings.get fails.  A missing Known_Devices key and an empty list are
\* both the empty list here.
AddRead(c) ==
    /\ call[c].pc = "add_read"
    /\ IF file.trunc
       THEN Finish(c, "AttributeError")
       ELSE call' = [call EXCEPT ![c].settings = file.known, ![c].pc = "add_open"]
    /\ last' = NoOp
    /\ UNCHANGED <<file, devices, threads, lock, started, clean>>

\* Lines 855-857: a new name is appended and the file is opened for writing,
\* which empties it.
AddOpen(c) ==
    /\ call[c].pc = "add_open"
    /\ IF NeedsWrite(call[c].settings, call[c].name)
       THEN /\ call' = [call EXCEPT ![c].settings = Append(@, call[c].name),
                                    ![c].wrote = TRUE, ![c].pc = "add_dump"]
            /\ file' = Truncated
       ELSE /\ call' = [call EXCEPT ![c].pc = "load_read"]
            /\ file' = file
    /\ last' = NoOp
    /\ UNCHANGED <<devices, threads, lock, started, clean>>

\* Line 859: oyaml.safe_dump, taken as one write of the whole document.
AddDump(c) ==
    /\ call[c].pc = "add_dump"
    /\ file' = Written(call[c].settings)
    /\ call' = [call EXCEPT ![c].pc = "load_read"]
    /\ last' = NoOp
    /\ UNCHANGED <<devices, threads, lock, started, clean>>

----------------------------------------------------------------------------
\* DeviceManager.load_known_devices

StartLoad(c) ==
    /\ call[c].pc = "idle"
    /\ Begin(c, "load", "-", 0, "load_read", "none")
    /\ last' = NoOp
    /\ UNCHANGED <<file, devices, threads, lock, clean>>

\* get_known_device_names (lines 812-823).
LoadRead(c) ==
    /\ call[c].pc = "load_read"
    /\ IF file.trunc
       THEN Finish(c, "AttributeError")
       ELSE call' = [call EXCEPT ![c].names = file.known, ![c].pc = "load_loop"]
    /\ last' = NoOp
    /\ UNCHANGED <<file, devices, threads, lock, started, clean>>

\* One iteration of the loop of lines 779-790; threads[c][i] is the thread of
\* the i-th name: "skip" when none was started, and in the end the outcome
\* of its connection attempt.
LoadIter(c) ==
    /\ call[c].pc = "load_loop"
    /\ Len(threads[c]) < Len(call[c].names)
    /\ LET n == call[c].names[Len(threads[c]) + 1]
       IN  threads' = [threads EXCEPT ![c] =
                          Append(@, IF AlreadyLoaded(devices, n) THEN "skip" ELSE "start")]
    /\ last' = NoOp
    /\ UNCHANGED <<file, devices, call, lock, started, clean>>

\* `with input_lock:` entered whether or not another thread holds the lock.
LockIgnored(held) == TRUE

\* `with input_lock:` (line 203) is entered only while no thread holds the lock.
LockFree(held) == ~held

\* A thread enters Device.__init__ and _connect_to_ssh_client: with a private
\* key it goes on to connect, otherwise it takes the password lock and prompts.
\* The lock is the one load_known_devices created for this call.  The lookup
\* of line 762 yields a hostname for every name (see lines 841-842), so the
\* ValueError of line 774 is never raised.
ThreadBegin(c, i) ==
    /\ i \in 1..Len(threads[c])
    /\ threads[c][i] = "start"
    /\ IF call[c].names[i] \in WithKey
       THEN /\ threads' = [threads EXCEPT ![c][i] = "connect"]
            /\ lock' = lock
       ELSE /\ LockFree(lock[c])
            /\ lock' = [lock EXCEPT ![c] = TRUE]
            /\ threads' = [threads EXCEPT ![c][i] = "prompt"]
    /\ last' = NoOp
    /\ UNCHANGED <<file, devices, call, started, clean>>

\* The password has been typed: the lock is released (lines 203-205).
ThreadPrompt(c, i) ==
    /\ i \in 1..Len(threads[c])
    /\ threads[c][i] = "prompt"
    /\ lock' = [lock EXCEPT ![c] = FALSE]
    /\ threads' = [threads EXCEPT ![c][i] = "connect"]
    /\ last' = NoOp
    /\ UNCHANGED <<file, devices, call, started, clean>>

\* ssh.connect returns or raises, __init__ ends, and the Device is appended.
ThreadConnect(c, i, res) ==
    /\ i \in 1..Len(threads[c])
    /\ threads[c][i] = "connect"
    /\ devices' = ThreadAppend(devices, call[c].names[i], res)
    /\ threads' = [threads EXCEPT ![c][i] = res]
    /\ last' = NoOp
    /\ UNCHANGED <<file, call, lock, started, clean>>

\* Lines 793-794: every thread is joined; the call (and the add_device call
\* that ended with it) returns.  A thread that died would be joined as well.
Join(c) ==
    /\ call[c].pc = "load_loop"
    /\ Len(threads[c]) = Len(call[c].names)
    /\ \A i \in 1..Len(threads[c]) : threads[c][i] \in {"skip"} \cup ConnectResults
    /\ Finish(c, "ok")
    /\ last' = NoOp
    /\ UNCHANGED <<file, devices, threads, lock, started, clean>>

----------------------------------------------------------------------------
\* DeviceManager.remove_device

\* The call, get_devices_by(name=name) and the two early exits (lines 874-881).
StartRemove(c, n) ==
    /\ call[c].pc = "idle"
    /\ LET m == Len(get_devices_by_name(devices, n))
           d == remove_decision(m)
       IN  Begin(c, "remove", n, m,
                 IF d = "proceed" THEN "rm_list" ELSE "done",
                 IF d = "raise" THEN "DeviceNameConflictException"
                 ELSE IF d = "return" THEN "ok" ELSE "none")
    /\ last' = NoOp
    /\ UNCHANGED <<file, devices, threads, lock, clean>>

\* Line 884: self.devices.remove(dev_to_remove); list.remove raises ValueError
\* when the object has left the list meanwhile.  Devices are told apart by
\* name here.
RemoveFromList(c) ==
    /\ call[c].pc = "rm_list"
    /\ LET found == get_devices_by_name(devices, call[c].name)
       IN  IF found = <<>>
           THEN /\ Finish(c, "ValueError")
                /\ devices' = devices
           ELSE /\ devices' = RemoveFirst(devices, found[1])
                /\ call' = [call EXCEPT ![c].pc = "rm_read"]
    /\ last' = NoOp
    /\ UNCHANGED <<file, threads, lock, started, clean>>

\* Lines 886-887: an empty file loads as None and the subscript fails.
RemoveRead(c) ==
    /\ call[c].pc = "rm_read"
    /\ IF file.trunc
       THEN Finish(c, "TypeError")
       ELSE call' = [call EXCEPT ![c].settings = file.known, ![c].pc = "rm_open"]
    /\ last' = NoOp
    /\ UNCHANGED <<file, devices, threads, lock, started, clean>>

\* Lines 888-896.
RemoveOpen(c) ==
    /\ call[c].pc = "rm_open"
    /\ IF call[c].name \in Range(call[c].settings)
       THEN /\ call' = [call EXCEPT ![c].settings = RemoveFirst(@, call[c].name),
                                    ![c].wrote = TRUE, ![c].pc = "rm_dump"]
            /\ file' = Truncated
       ELSE /\ Finish(c, "ok")
            /\ file' = file
    /\ last' = NoOp
    /\ UNCHANGED <<devices, threads, lock, started, clean>>

\* Line 892: oyaml.safe_dump.
RemoveDump(c) ==
    /\ call[c].pc = "rm_dump"
    /\ file' = Written(call[c].settings)
    /\ Finish(c, "ok")
    /\ last' = NoOp
    /\ UNCHANGED <<devices, threads, lock, started, clean>>

\* The caller has its result and may call again; the joined threads of the
\* call are forgotten.
Return(c) ==
    /\ call[c].pc = "done"
    /\ call' = [call EXCEPT ![c] = IdleCall]
    /\ threads' = [threads EXCEPT ![c] = <<>>]
    /\ last' = NoOp
    /\ UNCHANGED <<file, devices, lock, started, clean>>

----------------------------------------------------------------------------
\* Operations on one Device of the roster, between DeviceManager calls.

Replace(devs, i, dev) == [devs EXCEPT ![i] = dev]

\* device.ssh_server_is_open()
Probe(i, execOk) ==
    /\ AllIdle
    /\ i \in 1..Len(devices)
    /\ LET r == ssh_server_is_open(devices[i], execOk)
       IN  /\ devices' = Replace(devices, i, r.dev)
           /\ last' = [NoOp EXCEPT !.op = "probe", !.idx = i, !.name = devices[i].name,
                                   !.pre = devices[i].connected, !.exec = execOk,
                                   !.ret = r.ret, !.post = r.dev.connected]
    /\ UNCHANGED <<file, call, threads, lock, started, clean>>

\* device._connect_to_ssh_client()
Reconnect(i, execOk, res) ==
    /\ AllIdle
    /\ i \in 1..Len(devices)
    /\ LET r == connect_to_ssh_client(devices[i], execOk, res)
       IN  /\ devices' = Replace(devices, i, r.dev)
           /\ last' = [NoOp EXCEPT !.op = "connect", !.idx = i, !.name = devices[i].name,
                                   !.pre = devices[i].connected, !.exec = execOk,
                                   !.res = res, !.post = r.dev.connected,
                                   !.hs = r.hs, !.pw = r.pw, !.raised = r.raised]
    /\ UNCHANGED <<file, call, threads, lock, started, clean>>

----------------------------------------------------------------------------
\* Specifications.

\* Most names one load can hold, and most Devices the roster can: a list
\* never grows beyond its initial length plus one entry per name.
MaxThreads == MaxInitKnown + Cardinality(Names)

MaxRoster == 2 * MaxThreads

ManagerSteps ==
    \/ \E c \in Callers : AddRead(c)
    \/ \E c \in Callers : AddOpen(c)
    \/ \E c \in Callers : AddDump(c)
    \/ \E c \in Callers : LoadRead(c)
    \/ \E c \in Callers : LoadIter(c)
    \/ \E c \in Callers, i \in 1..MaxThreads : ThreadBegin(c, i)
    \/ \E c \in Callers, i \in 1..MaxThreads : ThreadPrompt(c, i)
    \/ \E c \in Callers, i \in 1..MaxThreads, res \in ConnectResults :
          ThreadConnect(c, i, res)
    \/ \E c \in Callers : Join(c)
    \/ \E c \in Callers : RemoveFromList(c)
    \/ \E c \in Callers : RemoveRead(c)
    \/ \E c \in Callers : RemoveOpen(c)
    \/ \E c \in Callers : RemoveDump(c)
    \/ \E c \in Callers : Return(c)

DeviceSteps ==
    \/ \E i \in 1..MaxRoster, execOk \in BOOLEAN : Probe(i, execOk)
    \/ \E i \in 1..MaxRoster, execOk \in BOOLEAN, res \in ConnectResults :
          Reconnect(i, execOk, res)

\* The command-line session: one DeviceManager call at a time.
Next ==
    \/ AllIdle /\ StartLoad(Session) /\ UNCHANGED started
    \/ \E n \in Aliases : AllIdle /\ StartAdd(Session, n) /\ UNCHANGED started
    \/ \E n \in Aliases : AllIdle /\ StartRemove(Session, n) /\ UNCHANGED started
    \/ ManagerSteps
    \/ DeviceSteps

Spec == Init /\ [][Next]_vars

\* Callers on several threads: MaxCalls calls that may overlap, on a
\* controller that knows no device yet.
Counted == started < MaxCalls /\ started' = started + 1

InitConc == Init /\ file.known = <<>>

NextConc ==
    \/ \E c \in Callers : Counted /\ StartLoad(c)
    \/ \E c \in Callers, n \in Aliases : Counted /\ StartAdd(c, n)
    \/ \E c \in Callers, n \in Aliases : Counted /\ StartRemove(c, n)
    \/ ManagerSteps

SpecConc == InitConc /\ [][NextConc]_vars

----------------------------------------------------------------------------
\* Properties.

Done(c) == call[c].pc = "done"

Loaded(c) == Done(c) /\ call[c].op \in {"load", "add"} /\ call[c].outcome = "ok"

Copies(name) == Len(get_devices_by_name(devices, name))

\* Neither in the Known_Devices list nor in the roster when the call began.
Fresh(c) ==
    /\ call[c].name \notin Range(call[c].file0.known)
    /\ get_devices_by_name(call[c].dev0, call[c].name) = <<>>

\* C1: two add_device calls for distinct configured names, neither known
\* before, the second begun while or after the first ran and no other call
\* around them: both return normally, both names are in Known_Devices and
\* each has exactly one Device in the roster.
C1_ConcurrentAddsBothKept ==
    \A c1, c2 \in Callers :
        ( /\ c1 # c2
          /\ Done(c1) /\ Done(c2)
          /\ call[c1].op = "add" /\ call[c2].op = "add"
          /\ call[c1].name # call[c2].name
          /\ call[c1].name \in Names /\ call[c2].name \in Names
          /\ Fresh(c1) /\ Fresh(c2)
          /\ call[c1].quiet0 /\ call[c1].others = 1 /\ call[c2].others = 0 )
        => ( /\ call[c1].outcome = "ok" /\ call[c2].outcome = "ok"
             /\ {call[c1].name, call[c2].name} \subseteq Range(file.known)
             /\ Copies(call[c1].name) = 1 /\ Copies(call[c2].name) = 1 )

\* C2: from a settings file without duplicate names and an empty roster, no
\* two Devices of the roster share a name and no name is twice in
\* Known_Devices, at any point of any sequence of calls.
C2_NamesUnique ==
    clean => NoDuplicates(DeviceNames(devices)) /\ NoDuplicates(file.known)

C2_Witness ==
    /\ clean
    /\ Done(Session) /\ call[Session].op = "add" /\ call[Session].matched = 1
    /\ Len(devices) = 2 /\ Len(file.known) = 2

C4_AddKnownWritesNothing ==
    \A c \in Callers :
        call[c].op = "add" /\ call[c].name \in Range(call[c].file0.known)
        => ~call[c].wrote /\ file = call[c].file0

C4_Witness ==
    /\ Done(Session) /\ call[Session].op = "add" /\ call[Session].outcome = "ok"
    /\ call[Session].name \in Range(call[Session].file0.known)
    /\ call[Session].dev0 = <<>> /\ devices # <<>>

\* C5: remove_device with a name that matches no Device does not return
\* normally.
C5_RemoveUnknownFails ==
    \A c \in Callers :
        Done(c) /\ call[c].op = "remove" /\ call[c].matched = 0
        => call[c].outcome # "ok"

\* C6: remove_device with a name that matches several Devices raises
\* DeviceNameConflictException and leaves roster and Known_Devices as they
\* were.
C6_RemoveAmbiguousRaises ==
    \A c \in Callers :
        Done(c) /\ call[c].op = "remove" /\ call[c].matched > 1
        => /\ call[c].outcome = "DeviceNameConflictException"
           /\ devices = call[c].dev0
           /\ file = call[c].file0 /\ ~call[c].wrote

C6_Witness ==
    /\ Done(Session) /\ call[Session].op = "remove" /\ call[Session].matched = 2
    /\ call[Session].outcome = "DeviceNameConflictException"

\* C7: when load_known_devices has completed, every name of Known_Devices
\* has a Device in the roster, and a name whose connection attempt failed
\* has one that is not connected.
C7_LoadKeepsFailedDevices ==
    \A c \in Callers :
        Loaded(c)
        => /\ \A n \in Range(file.known) : Copies(n) >= 1
           /\ \A i \in 1..Len(threads[c]) :
                 threads[c][i] \in {"auth", "unreach"}
                 => \E k \in 1..Len(devices) :
                       devices[k].name = call[c].names[i] /\ ~devices[k].connected

C7_Witness ==
    /\ Loaded(Session) /\ Len(threads[Session]) = 2
    /\ threads[Session][1] = "unreach" /\ threads[Session][2] = "ok"
    /\ Len(devices) = 2

\* C8: when load_known_devices has completed on a settings file without
\* duplicates, the Devices of the roster are in the order of Known_Devices.
C8_RosterInFileOrder ==
    \A c \in Callers :
        clean /\ Loaded(c) => DeviceNames(devices) = file.known

\* C9: _connect_to_ssh_client on a connected Device whose probe succeeds
\* performs no handshake and no password prompt, raises nothing and leaves
\* the Device connected.
C9_ConnectIdempotent ==
    last.op = "connect" /\ last.pre /\ last.exec
    => /\ last.hs = 0 /\ last.pw = 0 /\ last.raised = "none"
       /\ devices[last.idx].connected

C9_Witness ==
    /\ last.op = "connect" /\ last.pre /\ last.exec
    /\ last.name \notin WithKey /\ last.res = "auth"

\* C10: after ssh_server_is_open returned False the Device is not connected,
\* and it returns True only for a connected Device whose probe succeeded.
C10_FailedProbeDisconnects ==
    last.op = "probe"
    => /\ ~last.ret => ~devices[last.idx].connected
       /\ last.ret <=> (last.pre /\ last.exec)

C10_Witness ==
    /\ last.op = "probe" /\ last.pre /\ ~last.exec
    /\ ~last.ret /\ ~devices[last.idx].connected

\* ---------------------------------------------------------------------
\* Outcome of connecting (C11)

\* What a caller can read from a Device after its construction: every field
\* but the name it was given.
Observable(dev) == [connected |-> dev.connected]

\* C11 as stated: when load_known_devices has completed, a Device whose
\* credentials were rejected and a Device whose host was unreachable do not
\* have the same observable state.
C11_AuthRejectionDistinct ==
    \A c \in Callers :
        Loaded(c)
        => \A i, j \in 1..Len(threads[c]) :
              threads[c][i] = "auth" /\ threads[c][j] = "unreach"
              => \A k, l \in 1..Len(devices) :
                    ( /\ devices[k].name = call[c].names[i]
                      /\ devices[l].name = call[c].names[j]
                      /\ Copies(devices[k].name) = 1
                      /\ Copies(devices[l].name) = 1 )
                    => Observable(devices[k]) # Observable(devices[l])

\* ---------------------------------------------------------------------
\* Writes of the settings file (C12)

\* C12 as stated: at every point of every call the settings file holds a
\* complete document, the one from before the write or the new one.
C12_StoreNeverPartial == ~file.trunc

\* ---------------------------------------------------------------------
\* network.Device: identity of a device found on the LAN (C13)

\* UUIDs a record can hold, "" for none, and the MAC addresses of the LAN.
UUIDs == {"U1", "T1"}
NoUUID == ""
MACs == {"m1"}
NoMAC == ""

\* The fields of a known-device record that identify the device.
KnownRecords == [uuid : UUIDs, mac : MACs]

\* Most records in the controller's known_devices list.
MaxKnown == 1

\* Device.__init__(self, controller, **kwargs): controller has no default.
NetDeviceInit(withController) == IF withController THEN "ok" ELSE "TypeError"

\* The record infer_missing copies onto the device, field by field with
\* force=True: every matching record in turn, so the last one stays.
LastMatch(hits) == hits[Len(hits)]

\* Device.infer_missing. Its first statement constructs Device() without a
\* controller. The branches after it look the device up in the controller's
\* known_devices only: by UUID through get_known_uuids, which
\* ControllerConfigs does not define, else by MAC. Nothing in it reads the
\* device's own files.
infer_missing(dev, known) ==
    IF NetDeviceInit(FALSE) # "ok"
    THEN [dev |-> dev, raised |-> "TypeError"]
    ELSE IF dev.uuid # NoUUID
    THEN [dev |-> dev, raised |-> "AttributeError"]
    ELSE IF dev.mac # NoMAC /\ \E i \in 1..Len(known) : known[i].mac = dev.mac
    THEN [dev |-> LastMatch(SelectSeq(known, LAMBDA r : r.mac = dev.mac)),
          raised |-> "none"]
    ELSE [dev |-> dev, raised |-> "none"]

\* infer_missing on a device whose own identity file holds `remote`
\* ("" when there is none), with the controller's known_devices `known`.
InferMissing(u, m, known, remote) ==
    /\ LET r == infer_missing([uuid |-> u, mac |-> m], known)
       IN  last' = [op |-> "infer_missing", pre |-> [uuid |-> u, mac |-> m],
                    known |-> known, remote |-> remote,
                    post |-> r.dev, raised |-> r.raised]
    /\ UNCHANGED <<file, devices, call, threads, lock, started, clean>>

\* C13 as stated: a device whose identity file holds a UUID, reconciled
\* against a known-device record of the same MAC that claims another UUID,
\* ends with the UUID of its identity file.
C13_RemoteUuidWins ==
    ( /\ last.op = "infer_missing"
      /\ last.remote \in UUIDs
      /\ \E i \in 1..Len(last.known) :
            /\ last.known[i].mac = last.pre.mac
            /\ last.known[i].uuid # last.remote )
    => last.raised = "none" /\ last.post.uuid = last.remote

\* ---------------------------------------------------------------------
\* DeviceManager.get_devices_by (C14)

\* Most keyword arguments in one call.
MaxKeys == 2

\* Keyword arguments of a call: the attributes the model's Device has, with
\* values of their type, and a key no Device has.
UnknownKey == "bogus"

Kwarg ==
    [key : {"name"}, value : Aliases]
        \cup [key : {"connected"}, value : BOOLEAN]
        \cup [key : {UnknownKey}, value : {TRUE}]

\* kwargs.items(): a dict holds each key once.
Kwargs ==
    {kw \in SeqsUpTo(Kwarg, MaxKeys) :
        \A i, j \in 1..Len(kw) : kw[i].key = kw[j].key => i = j}

hasattr(dev, key) == key \in DOMAIN dev

\* The inner loop for one key: ValueError at the first device without the
\* attribute, else the devices whose attribute equals the value.
FilterByKey(result, kwarg) ==
    IF \E i \in 1..Len(result) : ~hasattr(result[i], kwarg.key)
    THEN [ret |-> <<>>, raised |-> "ValueError"]
    ELSE [ret |-> SelectSeq(result, LAMBDA d : d[kwarg.key] = kwarg.value),
          raised |-> "none"]

RECURSIVE get_devices_by(_, _)
get_devices_by(result, kwargs) ==
    IF kwargs = <<>>
    THEN [ret |-> result, raised |-> "none"]
    ELSE LET r == FilterByKey(result, Head(kwargs))
         IN  IF r.raised # "none" THEN r ELSE get_devices_by(r.ret, Tail(kwargs))

\* C14 as stated: in every state of the roster, get_devices_by with a key
\* that no Device has raises ValueError.
C14_UnknownKeyRaises ==
    \A kw \in Kwargs :
        (\E i \in 1..Len(kw) : kw[i].key = UnknownKey)
        => get_devices_by(devices, kw).raised = "ValueError"

\* ---------------------------------------------------------------------
\* The password prompt (C15)

\* The connection threads that are inside getpass.
Prompting ==
    {<<c, i>> \in Callers \X (1..MaxThreads) :
        i <= Len(threads[c]) /\ threads[c][i] = "prompt"}

\* C15: at most one connection thread at a time is inside the password
\* prompt.
C15_OnePromptAtATime == Cardinality(Prompting) <= 1

\* One thread is prompting while another, which has no key either, waits
\* for the lock.
C15_Witness ==
    \E c \in Callers : \E i, j \in 1..Len(threads[c]) :
        /\ i # j
        /\ threads[c][i] = "prompt"
        /\ threads[c][j] = "start" /\ call[c].names[j] \notin WithKey

\* ---------------------------------------------------------------------
\* utils.run_bash_script_and_return_results (C16, C17)

\* Most flag names in one call, and the width of a script's exit code.
MaxFlags == 3
ExitCodeBits == 8

ExitCodes == 0..(2 ^ ExitCodeBits - 1)

\* What launching the script comes to: it ran and exited with returncode, or
\* subprocess raised PermissionError.
Launches ==
    [raised : {"none"}, returncode : ExitCodes]
        \cup {[raised |-> "PermissionError", returncode |-> 0]}

\* error_code_flags of n names, bit 0 first.
FlagNames == <<"a", "b", "c", "d", "e", "f", "g", "h">>
Flags(n) == SubSeq(FlagNames, 1, n)

\* The exit code left as it is.
NoInvert(x) == x

\* Python's ~ on an int.
Invert(x) == -x - 1

\* (x & (1 << i)) != 0 on a Python int, negative ones in two's complement.
\* \div rounds down.
TestBit(x, i) == (x \div (2 ^ i)) % 2 = 1

\* No bit set.
PermissionDeniedClear(n) == 0

\* The exit code taken when the launch raises PermissionError.
PermissionDeniedCode(n) == 2 ^ n - 1

\* The result maps every flag name to a Boolean and has one more key for the
\* permission.
run_bash_script_and_return_results(error_code_flags, invert_bits, launch) ==
    LET n == Len(error_code_flags)
        permission_to_run == launch.raised # "PermissionError"
        code == IF permission_to_run THEN launch.returncode ELSE PermissionDeniedCode(n)
        exit_code == IF invert_bits THEN Invert(code) ELSE code
        permKey == IF invert_bits THEN "permission_ok" ELSE "permission_error"
        IndexOf(k) == CHOOSE i \in 1..n : error_code_flags[i] = k
    IN  [k \in Range(error_code_flags) \cup {permKey} |->
            IF k = permKey
            THEN (IF invert_bits THEN permission_to_run ELSE ~permission_to_run)
            ELSE TestBit(exit_code, IndexOf(k) - 1)]

RunScript(n, invert_bits, launch) ==
    /\ last' = [op |-> "run_script", flags |-> Flags(n), invert |-> invert_bits,
                launch |-> launch,
                ret |-> run_bash_script_and_return_results(Flags(n), invert_bits, launch)]
    /\ UNCHANGED <<file, devices, call, threads, lock, started, clean>>

\* The binary digits of a natural number, least significant first.
RECURSIVE Bits(_)
Bits(e) == IF e = 0 THEN <<>> ELSE <<e % 2>> \o Bits(e \div 2)

BitSet(e, i) == i + 1 <= Len(Bits(e)) /\ Bits(e)[i + 1] = 1

\* C16: for a script that ran and exited with code e, the result of flag i
\* is True exactly when bit i of e is set, or, with invert_bits, exactly when
\* it is clear; code 5 with flags (a, b, c) gives True, False, True, and
\* False, True, False with invert_bits.
C16_FlagsFollowBits ==
    (last.op = "run_script" /\ last.launch.raised = "none")
    => /\ \A i \in 1..Len(last.flags) :
             last.ret[last.flags[i]]
                = (BitSet(last.launch.returncode, i - 1) # last.invert)
       /\ (last.launch.returncode = 5 /\ last.flags = <<"a", "b", "c">>)
          => [k \in {"a", "b", "c"} |-> last.ret[k]]
               = IF last.invert
                 THEN [a |-> FALSE, b |-> TRUE, c |-> FALSE]
                 ELSE [a |-> TRUE, b |-> FALSE, c |-> TRUE]

C16_Witness ==
    /\ last.op = "run_script" /\ last.launch.raised = "none"
    /\ last.launch.returncode = 5 /\ last.invert
    /\ last.flags = <<"a", "b", "c">>
    /\ ~last.ret["a"] /\ last.ret["b"] /\ ~last.ret["c"]

\* C17: when the launch raised PermissionError the call returns a result:
\* without invert_bits every flag is True and permission_error is True, with
\* invert_bits every flag is False and permission_ok is False.
C17_PermissionErrorFailsAll ==
    (last.op = "run_script" /\ last.launch.raised = "PermissionError")
    => /\ DOMAIN last.ret = Range(last.flags)
             \cup {IF last.invert THEN "permission_ok" ELSE "permission_error"}
       /\ \A k \in DOMAIN last.ret : last.ret[k] = ~last.invert

C17_Witness ==
    /\ last.op = "run_script" /\ last.launch.raised = "PermissionError"
    /\ last.invert /\ Len(last.flags) = MaxFlags
    /\ ~last.ret["permission_ok"] /\ ~last.ret["a"]

\* ---------------------------------------------------------------------
\* network.convert_tenacity (C18)

\* Tenacity inputs are whole numbers and fractions, counted in tenths, from
\* -MaxTenths to MaxTenths; waiting times are counted in hundredths of a
\* second.
Tenth == 10
MaxTenths == 70

Tenacities == (-MaxTenths)..MaxTenths

\* Python's int() on a number: the fraction is cut off, towards zero.
int(t) == IF t >= 0 THEN t \div Tenth ELSE -((-t) \div Tenth)

\* The lower limit only.
ClampBelow(c) == IF c < 1 THEN 1 ELSE c

\* Lines 97-100.
Clamp(c) == IF c < 1 THEN 1 ELSE IF c > 5 THEN 5 ELSE c

\* <<repeats, wait_time in hundredths, recurse>>
convert_tenacity(t) ==
    LET tenacity == Clamp(int(t))
        repeats == tenacity
        wait_time == 2 ^ tenacity
        recurse == (IF tenacity > 1 THEN 1 ELSE 0) + (IF tenacity > 4 THEN 1 ELSE 0)
    IN  <<repeats, wait_time, recurse>>

ConvertTenacity(t) ==
    /\ last' = [op |-> "convert_tenacity", t |-> t, ret |-> convert_tenacity(t)]
    /\ UNCHANGED <<file, devices, call, threads, lock, started, clean>>

\* The whole number c of the claim for an input of t tenths: 1 below 2, 5
\* from 5 on, and in between the whole number with c <= t < c + 1.
ClaimedLevel(t) ==
    IF t < 2 * Tenth THEN 1
    ELSE IF t >= 5 * Tenth THEN 5
    ELSE CHOOSE c \in 2..4 : c * Tenth <= t /\ t < (c + 1) * Tenth

\* 0.01 * 2^c seconds in hundredths, as test_network.py lists them.
ClaimedWait == [c \in 1..5 |-> <<2, 4, 8, 16, 32>>[c]]

\* C18: convert_tenacity returns attempts c, wait 0.01 * 2^c and recursion
\* 0 for c = 1, 1 for c from 2 to 4, 2 for c = 5, with c the input cut to a
\* whole number and limited to 1..5; no smaller input gets more attempts or
\* a longer wait, and only inputs from 2 on get a recursion budget.
C18_TenacityTable ==
    last.op = "convert_tenacity"
    => LET c == ClaimedLevel(last.t) IN
       /\ last.ret[1] = c
       /\ last.ret[2] = ClaimedWait[c]
       /\ last.ret[3] = (IF c = 1 THEN 0 ELSE IF c <= 4 THEN 1 ELSE 2)
       /\ \A t \in Tenacities :
             t <= last.t
             => /\ convert_tenacity(t)[1] <= last.ret[1]
                /\ convert_tenacity(t)[2] <= last.ret[2]
       /\ last.ret[3] > 0 <=> last.t >= 2 * Tenth

C18_Witness ==
    /\ last.op = "convert_tenacity" /\ last.t = 5 * Tenth + 1
    /\ last.ret = <<5, 32, 2>>

\* ---------------------------------------------------------------------
\* network.mac_doublecheck (C19, C20)

\* Most probes in one call (repeat).
MaxRepeat == 3

\* What one get_mac_address call returns: None, the all-zero MAC or the MAC
\* of an interface.
None == "None"
ZeroMAC == "00:00:00:00:00:00"
ValidMACs == {"AA:BB:CC:DD:EE:FF", "11:22:33:44:55:66"}
ProbeResults == {None, ZeroMAC} \cup ValidMACs

\* list(set(macs)): the distinct values, in an order the set decides.
SetOrders(macs) ==
    {s \in SeqsUpTo(Range(macs), Cardinality(Range(macs))) :
        Range(s) = Range(macs) /\ NoDuplicates(s)}

\* Only None is turned down.
NotNone(m) == m # None

\* Line 75: bool(m) and not m == "00:00:00:00:00:00".
Usable(m) == m # None /\ m # ZeroMAC

\* The first entry, whatever it is.
FirstEntry(macs) == IF macs = <<>> THEN None ELSE macs[1]

\* Lines 74-77: the first usable entry of the list, None if there is none.
FirstUsable(macs) ==
    LET hits == SelectSeq(macs, Usable)
    IN  IF hits = <<>> THEN None ELSE hits[1]

\* probes are the results of the repeat calls of get_mac_address in attempt
\* order, order is the order in which the set yields their distinct values.
mac_doublecheck(probes, order) == FirstUsable(order)

MacDoublecheck(probes, order) ==
    /\ last' = [op |-> "mac_doublecheck", probes |-> probes, order |-> order,
                ret |-> mac_doublecheck(probes, order)]
    /\ UNCHANGED <<file, devices, call, threads, lock, started, clean>>

\* C19: mac_doublecheck never returns the all-zero MAC, and returns None
\* when every probe returned None or the all-zero MAC.
C19_NeverZeroMac ==
    last.op = "mac_doublecheck"
    => /\ last.ret # ZeroMAC
       /\ Range(last.probes) \subseteq {None, ZeroMAC} => last.ret = None

C19_Witness ==
    /\ last.op = "mac_doublecheck"
    /\ last.probes = <<ZeroMAC, None, ZeroMAC>> /\ last.order[1] = ZeroMAC
    /\ last.ret = None

\* The probes that returned a MAC other than the all-zero one, in attempt
\* order.
ValidProbes(probes) == SelectSeq(probes, LAMBDA m : m \in ValidMACs)

\* C20 as stated: when some probe returned a non-zero MAC, mac_doublecheck
\* returns the one of the earliest such probe.
C20_EarliestValidWins ==
    (last.op = "mac_doublecheck" /\ ValidProbes(last.probes) # <<>>)
    => last.ret = ValidProbes(last.probes)[1]

\* C20 amended: when some probe returned a non-zero MAC, mac_doublecheck
\* returns the non-zero MAC of one of the probes.
C20_SomeValidReturned ==
    (last.op = "mac_doublecheck" /\ ValidProbes(last.probes) # <<>>)
    => last.ret \in Range(ValidProbes(last.probes))

C20_Witness ==
    /\ last.op = "mac_doublecheck" /\ Len(last.probes) = 3
    /\ last.probes[1] = ZeroMAC
    /\ last.probes[2] \in ValidMACs /\ last.probes[3] \in ValidMACs
    /\ last.probes[2] # last.probes[3]
    /\ last.ret = last.probes[3]

\* ---------------------------------------------------------------------
\* network.Device.is_listening (C21)

\* How s.connect ends: it returns, or raises socket.timeout,
\* ConnectionRefusedError, another OSError (no route to host, network
\* unreachable) or socket.gaierror (the name does not resolve).
ConnectOutcomes == {"ok", "timeout", "refused", "unreachable", "gaierror"}

\* The exception s.connect raises for an outcome.
ConnectRaises(outcome) ==
    CASE outcome = "ok" -> "none"
      [] outcome = "timeout" -> "socket.timeout"
      [] outcome = "refused" -> "ConnectionRefusedError"
      [] outcome = "unreachable" -> "OSError"
      [] outcome = "gaierror" -> "socket.gaierror"

\* except (socket.timeout, ConnectionRefusedError)
CaughtByProbe(exc) == exc \in {"socket.timeout", "ConnectionRefusedError"}

\* Lines 251-258: the socket is opened, connect is tried, and the finally
\* clause closes the socket whatever happened.  ret is "True", "False" or
\* "-" when the call raised.
is_listening(outcome) ==
    LET exc == ConnectRaises(outcome)
    IN  IF exc = "none"
        THEN [ret |-> "True", raised |-> "none", closed |-> TRUE]
        ELSE IF CaughtByProbe(exc)
        THEN [ret |-> "False", raised |-> "none", closed |-> TRUE]
        ELSE [ret |-> "-", raised |-> exc, closed |-> TRUE]

IsListening(outcome) ==
    /\ LET r == is_listening(outcome)
       IN  last' = [op |-> "is_listening", outcome |-> outcome, ret |-> r.ret,
                    raised |-> r.raised, closed |-> r.closed]
    /\ UNCHANGED <<file, devices, call, threads, lock, started, clean>>

\* C21 as stated: is_listening returns True when the connection succeeds,
\* returns False without raising for every failure of the connection, and
\* has closed its socket when it ends, by return or by exception.
C21_ProbeNeverRaises ==
    last.op = "is_listening"
    => /\ last.raised = "none"
       /\ last.ret = (IF last.outcome = "ok" THEN "True" ELSE "False")
       /\ last.closed

\* ---------------------------------------------------------------------
\* device.Device.is_setup (C22)

\* A Device of the roster at any later time: connected or not.
AnyDevice == [name : Names, connected : BOOLEAN]

\* How rpc_mm_test ends: the product matches, it does not, or rpyc.connect
\* or the remote call raises (no server on the port, connection lost).
RpcOutcomes == {"match", "mismatch", "raise"}

\* The exception is passed on whatever suppress says.
NeverSuppressed(suppress) == FALSE

\* `if suppress:` of lines 481 and 490.
Suppressed(suppress) == suppress

\* Lines 480-494.  ret is "True", "False" or "-" when the call raised; rpc
\* counts the calls of rpc_mm_test.
is_setup(dev, execOk, rpcOutcome, suppress) ==
    LET probe == ssh_server_is_open(dev, execOk)
    IN  IF ~probe.ret
        THEN IF Suppressed(suppress)
             THEN [ret |-> "False", raised |-> "none", dev |-> probe.dev, rpc |-> 0]
             ELSE [ret |-> "-", raised |-> "DeviceUnavailableException",
                   dev |-> probe.dev, rpc |-> 0]
        ELSE IF rpcOutcome = "raise"
        THEN IF Suppressed(suppress)
             THEN [ret |-> "False", raised |-> "none", dev |-> probe.dev, rpc |-> 1]
             ELSE [ret |-> "-", raised |-> "Exception", dev |-> probe.dev, rpc |-> 1]
        ELSE [ret |-> IF rpcOutcome = "match" THEN "True" ELSE "False",
              raised |-> "none", dev |-> probe.dev, rpc |-> 1]

IsSetup(dev, execOk, rpcOutcome, suppress) ==
    /\ LET r == is_setup(dev, execOk, rpcOutcome, suppress)
       IN  last' = [op |-> "is_setup", pre |-> dev, exec |-> execOk,
                    rpcOutcome |-> rpcOutcome, suppress |-> suppress,
                    ret |-> r.ret, raised |-> r.raised, post |-> r.dev,
                    rpc |-> r.rpc]
    /\ UNCHANGED <<file, devices, call, threads, lock, started, clean>>

\* C22: is_setup(suppress=True) never raises; on a Device whose SSH session
\* is not alive it returns False without calling rpc_mm_test, and when
\* rpc_mm_test fails or raises it returns False.
C22_SuppressedCheckReturnsFalse ==
    (last.op = "is_setup" /\ last.suppress)
    => /\ last.raised = "none"
       /\ ~(last.pre.connected /\ last.exec) => last.ret = "False" /\ last.rpc = 0
       /\ last.rpcOutcome # "match" => last.ret = "False"

C22_Witness ==
    /\ last.op = "is_setup" /\ last.suppress
    /\ last.pre.connected /\ last.exec /\ last.rpcOutcome = "raise"
    /\ last.ret = "False" /\ last.rpc = 1

\* ---------------------------------------------------------------------
\* network.Device.fetch_data (C23, C24, C25)

\* Largest recursion budget of a call.
MaxRecurse == 2

\* The identity a call starts from: each field None or known.
Identities ==
    [last_ip : {None, "192.168.1.7"}, current_mac : {None, "AA:BB:CC:DD:EE:FF"},
     hostname : {None, "pi"}]

Blank == [last_ip |-> None, current_mac |-> None, hostname |-> None]

\* What the network answers: whether gethostbyname, get_ip_from_mac,
\* mac_doublecheck on the hostname, mac_doublecheck on the address and
\* gethostbyaddr find what they look for.
Networks ==
    [byname : BOOLEAN, ip_from_mac : BOOLEAN, mac_by_host : BOOLEAN,
     mac_by_ip : BOOLEAN, byaddr : BOOLEAN]

\* all(data.values())
AllKnown(data) ==
    data.last_ip # None /\ data.current_mac # None /\ data.hostname # None

\* Lines 329-354, one pass: data after it and the number of network
\* lookups it made.  A lookup that finds nothing leaves the field None.
Pass(data, net) ==
    LET try1 == data.last_ip = None /\ data.hostname # None
        ip1 == IF try1 /\ net.byname THEN "192.168.1.7" ELSE data.last_ip
        try2 == data.last_ip = None /\ data.current_mac # None /\ ip1 = None
        ip2 == IF try2 /\ net.ip_from_mac THEN "192.168.1.7" ELSE ip1
        try3 == data.current_mac = None /\ data.hostname # None
        mac1 == IF try3 /\ net.mac_by_host THEN "AA:BB:CC:DD:EE:FF"
                ELSE data.current_mac
        try4 == data.current_mac = None /\ ip2 # None /\ mac1 = None
        mac2 == IF try4 /\ net.mac_by_ip THEN "AA:BB:CC:DD:EE:FF" ELSE mac1
        try5 == data.hostname = None /\ ip2 # None
        host == IF try5 /\ net.byaddr THEN "pi" ELSE data.hostname
        Count(b) == IF b THEN 1 ELSE 0
    IN  [data |-> [last_ip |-> ip2, current_mac |-> mac2, hostname |-> host],
         lookups |-> Count(try1) + Count(try2) + Count(try3) + Count(try4)
                        + Count(try5)]

\* The keyword parameters of fetch_data (lines 316-324), and the keywords of
\* the call of line 357: the keys of data, and recurse.
FetchParams == {"last_ip", "mac_address", "hostname", "repeat", "wait", "recurse"}
RecurseKwargs == {"last_ip", "current_mac", "hostname", "recurse"}

\* A call with keywords the function does not have raises TypeError.
Accepted(kwargs) == kwargs \subseteq FetchParams

\* Lines 327-362.  passes lists the input and the budget of every pass that
\* ran; ret is the identity returned, Blank with raised set when the call
\* ended with an exception.
RECURSIVE fetch_data(_, _, _)
fetch_data(data, recurse, net) ==
    LET p == Pass(data, net)
        this == [input |-> data, recurse |-> recurse]
    IN  IF recurse > 0 /\ ~AllKnown(p.data)
        THEN IF Accepted(RecurseKwargs)
             THEN LET next == fetch_data(p.data, recurse - 1, net)
                  IN  [next EXCEPT !.passes = <<this>> \o @,
                                   !.lookups = p.lookups + @]
             ELSE [ret |-> Blank, raised |-> "TypeError", passes |-> <<this>>,
                   lookups |-> p.lookups]
        ELSE [ret |-> p.data, raised |-> "none", passes |-> <<this>>,
              lookups |-> p.lookups]

FetchData(data, recurse, net) ==
    /\ LET r == fetch_data(data, recurse, net)
       IN  last' = [op |-> "fetch_data", input |-> data, recurse |-> recurse,
                    net |-> net, ret |-> r.ret, raised |-> r.raised,
                    passes |-> r.passes, lookups |-> r.lookups,
                    after_first |-> Pass(data, net).data]
    /\ UNCHANGED <<file, devices, call, threads, lock, started, clean>>

\* C23 as stated: fetch_data with budget r ends after at most r + 1 passes
\* and returns an identity, complete or with the budget used up; it does
\* not end with an exception.
C23_FetchReturnsWithinBudget ==
    last.op = "fetch_data"
    => /\ Len(last.passes) <= last.recurse + 1
       /\ last.raised = "none"
       /\ AllKnown(last.ret) \/ Len(last.passes) = last.recurse + 1

\* C24 as stated: when the first pass leaves a field unknown and the budget
\* is positive, a second pass runs with the budget less one on the identity
\* the first pass produced.
C24_NextPassGetsEnriched ==
    ( /\ last.op = "fetch_data"
      /\ last.recurse > 0 /\ ~AllKnown(last.after_first) )
    => /\ Len(last.passes) >= 2
       /\ last.passes[2] = [input |-> last.after_first, recurse |-> last.recurse - 1]

\* C25 as stated: fetch_data with no field given ends with a caller error
\* before any lookup and any further pass; it does not return an identity.
C25_NoAnchorRejected ==
    (last.op = "fetch_data" /\ last.input = Blank)
    => /\ last.raised # "none"
       /\ last.lookups = 0
       /\ Len(last.passes) <= 1

\* ---------------------------------------------------------------------
\* device.Device.run_ssh_command and open_sftp_file (C26)

\* How the remote operation ends on the wire: the command exits with 0 or
\* with another code, the file is opened or SFTP reports an IOError for it,
\* or the connection is lost and paramiko raises.
CommandOutcomes == {"zero", "nonzero", "lost"}
SftpOutcomes == {"opened", "ioerror", "lost"}

\* Lines 265-277: every exception becomes the return value False; no line
\* assigns self.connected.
run_ssh_command(dev, outcome) ==
    [ret |-> outcome = "zero", raised |-> "none", dev |-> dev]

\* Lines 241-263: the flag decides whether SFTP is tried; an IOError is
\* logged and raised again, any other exception passes through; no line
\* assigns self.connected.
open_sftp_file(dev, outcome) ==
    IF ~dev.connected
    THEN [ret |-> FALSE, raised |-> "DeviceUnavailableException", dev |-> dev]
    ELSE IF outcome = "opened"
    THEN [ret |-> TRUE, raised |-> "none", dev |-> dev]
    ELSE IF outcome = "ioerror"
    THEN [ret |-> FALSE, raised |-> "IOError", dev |-> dev]
    ELSE [ret |-> FALSE, raised |-> "SSHException", dev |-> dev]

RunSshCommand(dev, outcome) ==
    /\ LET r == run_ssh_command(dev, outcome)
       IN  last' = [op |-> "run_ssh_command", pre |-> dev, outcome |-> outcome,
                    ret |-> r.ret, raised |-> r.raised, post |-> r.dev]
    /\ UNCHANGED <<file, devices, call, threads, lock, started, clean>>

OpenSftpFile(dev, outcome) ==
    /\ LET r == open_sftp_file(dev, outcome)
       IN  last' = [op |-> "open_sftp_file", pre |-> dev, outcome |-> outcome,
                    ret |-> r.ret, raised |-> r.raised, post |-> r.dev]
    /\ UNCHANGED <<file, devices, call, threads, lock, started, clean>>

\* C26 as stated: after run_ssh_command or open_sftp_file failed on a
\* connected Device because the connection was lost, the Device is not
\* connected.
C26_LostConnectionDisconnects ==
    ( /\ last.op \in {"run_ssh_command", "open_sftp_file"}
      /\ last.pre.connected /\ last.outcome = "lost" )
    => ~last.post.connected

\* ---------------------------------------------------------------------
\* config_mgr.ControllerConfigs.edit_config_item and set_known_devices (C27)

\* The controller's config file: a top-level item, a category with an item
\* of its own, and the list of known devices.
ConfigValues == {"v0", "v1"}
DeviceLists == {<<>>, <<"d1">>}
ConfigDocs ==
    [setting : ConfigValues, section : [item : ConfigValues],
     known_devices : DeviceLists]

\* json.load builds one dict for the document and one for the category; the
\* outer dict holds a reference to the inner one.
InnerRef == "inner"
Loaded2(doc) ==
    [top |-> [setting |-> doc.setting, section |-> InnerRef,
              known_devices |-> doc.known_devices],
     heap |-> [r \in {InnerRef} |-> doc.section]]

\* json.dump writes what the references point to at the time of the dump.
Dumped(top, heap) ==
    [setting |-> top.setting, section |-> heap[top.section],
     known_devices |-> top.known_devices]

\* The edits.  edit_config_item with a category assigns into the inner
\* dict, without one into the outer dict; set_known_devices assigns the
\* outer key known_devices.
ConfigEdits ==
    [kind : {"item_in_category", "item"}, value : ConfigValues]
        \cup [kind : {"known_devices"}, value : DeviceLists]

\* The content of the file: a whole document, or what a write that raised
\* left of it.
WholeFile(doc) == [whole |-> TRUE, doc |-> doc]
BrokenFile(doc) == [whole |-> FALSE, doc |-> doc]

\* Lines 150-173 and 278-288.  config.copy() copies the outer dict only:
\* backup and config refer to the same inner dict.  write and revert say
\* whether the write of the new content and the write of the backup succeed.
edit_config(doc, edit, write, revert) ==
    LET config == Loaded2(doc)
        backup == config.top
        top1 == IF edit.kind = "item"
                THEN [config.top EXCEPT !.setting = edit.value]
                ELSE IF edit.kind = "known_devices"
                THEN [config.top EXCEPT !.known_devices = edit.value]
                ELSE config.top
        heap1 == IF edit.kind = "item_in_category"
                 THEN [config.heap EXCEPT ![InnerRef].item = edit.value]
                 ELSE config.heap
    IN  IF write
        THEN [file |-> WholeFile(Dumped(top1, heap1)), raised |-> "none"]
        ELSE IF revert
        THEN [file |-> WholeFile(Dumped(backup, heap1)), raised |-> "first"]
        ELSE [file |-> BrokenFile(Dumped(backup, heap1)), raised |-> "second"]

EditConfig(doc, edit, write, revert) ==
    /\ LET r == edit_config(doc, edit, write, revert)
       IN  last' = [op |-> "edit_config", file0 |-> WholeFile(doc), edit |-> edit,
                    write |-> write, revert |-> revert,
                    file |-> r.file, raised |-> r.raised]
    /\ UNCHANGED <<file, devices, call, threads, lock, started, clean>>

\* C27 as stated: when the write of the new content fails (and the write
\* of the backup goes through), the file ends with the content it had
\* before the call and the exception of the failed write is raised.
C27_FailedWriteReverts ==
    (last.op = "edit_config" /\ ~last.write /\ last.revert)
    => last.file = last.file0 /\ last.raised = "first"

\* ---------------------------------------------------------------------
\* device.Device.setup (C28)

\* The steps of setup in the order they run (lines 302-310).
SetupSteps ==
    <<"data_dir", "copy_module", "prepare_apt", "install_packages",
      "install_pyenv", "configure_pyenv", "configure_venv">>

NoResults == [k \in {} |-> FALSE]

\* Lines 291-342.  exec1 and exec2 are the probes of setup's own
\* ssh_server_is_open and of the one in is_setup; failing is the set of
\* steps that do not succeed.  setup calls is_setup() with suppress at its
\* default False.  A step that fails is recorded as False and the next one
\* runs.
setup(dev, exec1, exec2, rpcOutcome, failing) ==
    LET probe == ssh_server_is_open(dev, exec1)
        check == is_setup(probe.dev, exec2, rpcOutcome, FALSE)
    IN  IF ~probe.ret
        THEN [ret |-> "-", raised |-> "DeviceUnavailableException",
              results |-> NoResults, ran |-> 0, dev |-> probe.dev]
        ELSE IF check.raised # "none"
        THEN [ret |-> "-", raised |-> check.raised,
              results |-> NoResults, ran |-> 0, dev |-> check.dev]
        ELSE IF check.ret = "True"
        THEN [ret |-> "None", raised |-> "none",
              results |-> NoResults, ran |-> 0, dev |-> check.dev]
        ELSE [ret |-> "results", raised |-> "none",
              results |-> [k \in Range(SetupSteps) |-> k \notin failing],
              ran |-> Len(SetupSteps), dev |-> check.dev]

Setup(dev, exec1, exec2, rpcOutcome, failing) ==
    /\ LET r == setup(dev, exec1, exec2, rpcOutcome, failing)
       IN  last' = [op |-> "setup", pre |-> dev, exec1 |-> exec1, exec2 |-> exec2,
                    rpcOutcome |-> rpcOutcome, failing |-> failing,
                    ret |-> r.ret, raised |-> r.raised, results |-> r.results,
                    ran |-> r.ran, post |-> r.dev]
    /\ UNCHANGED <<file, devices, call, threads, lock, started, clean>>

\* C28 as stated: setup on a Device whose SSH session is alive and whose
\* RPC test raises (no server running) or does not match runs the steps and
\* returns a result with an entry, True or False, for each of the seven.
C28_SetupRunsAllSteps ==
    ( /\ last.op = "setup"
      /\ last.pre.connected /\ last.exec1 /\ last.exec2
      /\ last.rpcOutcome \in {"raise", "mismatch"} )
    => /\ last.raised = "none" /\ last.ret = "results"
       /\ last.ran > 0
       /\ DOMAIN last.results = Range(SetupSteps)
       /\ Cardinality(DOMAIN last.results) = 7

\* ---------------------------------------------------------------------
\* network.Device.is_responsive and ready_for_SSH (C29)

\* Lines 722-725: the try statement with its except clause, before the
\* finally clause runs.
ProbeAttempt(outcome) ==
    LET exc == ConnectRaises(outcome)
    IN  IF exc = "none" THEN [ret |-> "-", raised |-> "none", returned |-> FALSE]
        ELSE IF CaughtByProbe(exc)
        THEN [ret |-> "False", raised |-> "none", returned |-> TRUE]
        ELSE [ret |-> "-", raised |-> exc, returned |-> FALSE]

\* Lines 726-728: the finally clause closes the socket and returns True.  A
\* return in a finally clause replaces the pending return value and drops
\* the pending exception.
is_responsive(outcome) ==
    LET pending == ProbeAttempt(outcome)
    IN  [ret |-> "True", raised |-> "none", closed |-> TRUE, dropped |-> pending]

IsResponsive(outcome) ==
    /\ LET r == is_responsive(outcome)
       IN  last' = [op |-> "is_responsive", outcome |-> outcome, ret |-> r.ret,
                    raised |-> r.raised, closed |-> r.closed]
    /\ UNCHANGED <<file, devices, call, threads, lock, started, clean>>

\* Lines 643-665: with address, user name and key at hand the port is
\* probed, and only then the SSH login is tried.  logins counts the calls of
\* open_ssh_client.
ready_for_SSH(hasInfo, outcome, loginOk) ==
    IF ~hasInfo THEN [ret |-> "False", logins |-> 0]
    ELSE IF is_responsive(outcome).ret # "True" THEN [ret |-> "False", logins |-> 0]
    ELSE [ret |-> IF loginOk THEN "True" ELSE "False", logins |-> 1]

ReadyForSSH(hasInfo, outcome, loginOk) ==
    /\ LET r == ready_for_SSH(hasInfo, outcome, loginOk)
       IN  last' = [op |-> "ready_for_SSH", hasInfo |-> hasInfo,
                    outcome |-> outcome, loginOk |-> loginOk,
                    ret |-> r.ret, logins |-> r.logins]
    /\ UNCHANGED <<file, devices, call, threads, lock, started, clean>>

\* C29 as stated: is_responsive returns True only when the connection
\* succeeded and False when it timed out or was refused, and ready_for_SSH
\* tries no SSH login on a host whose port did not answer.
C29_ResponsiveOnlyWhenListening ==
    /\ last.op = "is_responsive"
       => /\ last.ret = "True" => last.outcome = "ok"
          /\ last.outcome \in {"timeout", "refused"} => last.ret = "False"
    /\ last.op = "ready_for_SSH"
       => (last.outcome # "ok" => last.logins = 0)

\* ---------------------------------------------------------------------
\* Roster and Known_Devices (C30)

\* The Devices of a roster and the names of a settings file are the same
\* names.
InSync(devs, settings) == Range(DeviceNames(devs)) = Range(settings.known)

\* add_device or remove_device has returned, on a roster that matched the
\* settings file when the call began, as it does once load_known_devices
\* has run.
ReturnedOnLoaded(c) ==
    /\ Done(c) /\ call[c].op \in {"add", "remove"} /\ call[c].outcome = "ok"
    /\ InSync(call[c].dev0, call[c].file0)

\* C30 as stated: after add_device or remove_device returned normally on a
\* roster loaded from the settings file, the names of the Devices in the
\* roster are the names in Known_Devices.
C30_RosterMatchesFile ==
    \A c \in Callers : ReturnedOnLoaded(c) => InSync(devices, file)

\* C30 amended: the same for a settings file that listed no name twice.
C30_RosterMatchesCleanFile ==
    \A c \in Callers : clean /\ ReturnedOnLoaded(c) => InSync(devices, file)

C30_Witness ==
    /\ clean /\ ReturnedOnLoaded(Session)
    /\ call[Session].op = "remove" /\ call[Session].matched = 1
    /\ Len(call[Session].dev0) = 2 /\ Len(devices) = 1 /\ Len(file.known) = 1

\* ---------------------------------------------------------------------
\* The functions above, called on their own

InitFn == Init /\ file.known = <<>>

\* No function has been called yet: each behaviour is one call.
Uncalled == last.op = "none"

NextFn ==
    \/ \E u \in UUIDs \cup {NoUUID}, m \in MACs \cup {NoMAC},
          known \in SeqsUpTo(KnownRecords, MaxKnown), remote \in UUIDs \cup {NoUUID} :
          Uncalled /\ InferMissing(u, m, known, remote)
    \/ \E n \in 0..MaxFlags, invert_bits \in BOOLEAN, launch \in Launches :
          Uncalled /\ RunScript(n, invert_bits, launch)
    \/ \E t \in Tenacities : Uncalled /\ ConvertTenacity(t)
    \/ \E probes \in SeqsUpTo(ProbeResults, MaxRepeat) :
          \E order \in SetOrders(probes) : Uncalled /\ MacDoublecheck(probes, order)
    \/ \E outcome \in ConnectOutcomes : Uncalled /\ IsListening(outcome)
    \/ \E dev \in AnyDevice, execOk \in BOOLEAN, rpcOutcome \in RpcOutcomes,
          suppress \in BOOLEAN :
          Uncalled /\ IsSetup(dev, execOk, rpcOutcome, suppress)
    \/ \E data \in Identities, recurse \in 0..MaxRecurse, net \in Networks :
          Uncalled /\ FetchData(data, recurse, net)
    \/ \E dev \in AnyDevice, outcome \in CommandOutcomes :
          Uncalled /\ RunSshCommand(dev, outcome)
    \/ \E dev \in AnyDevice, outcome \in SftpOutcomes :
          Uncalled /\ OpenSftpFile(dev, outcome)
    \/ \E doc \in ConfigDocs, edit \in ConfigEdits, write \in BOOLEAN,
          revert \in BOOLEAN :
          Uncalled /\ EditConfig(doc, edit, write, revert)
    \/ \E dev \in AnyDevice, exec1 \in BOOLEAN, exec2 \in BOOLEAN,
          rpcOutcome \in RpcOutcomes, failing \in SUBSET Range(SetupSteps) :
          Uncalled /\ Setup(dev, exec1, exec2, rpcOutcome, failing)
    \/ \E outcome \in ConnectOutcomes : Uncalled /\ IsResponsive(outcome)
    \/ \E hasInfo \in BOOLEAN, outcome \in ConnectOutcomes, loginOk \in BOOLEAN :
          Uncalled /\ ReadyForSSH(hasInfo, outcome, loginOk)

SpecFn == InitFn /\ [][NextFn]_vars

====
